---------------------------- MODULE Spec2Model ----------------------------
(***************************************************************************)
(* A model of src/main.cpp: the Lehmer32 generator, the terrain generator  *)
(* World::getNoiseArray, the tree and cloud placers, and the World object  *)
(* with its OnUserCreate / OnUserUpdate callbacks and its heap of Tree,    *)
(* Cloud and CloudPart objects.                                            *)
(*                                                                         *)
(* Numbers.  The machine word of the generator is WordBits wide instead of *)
(* 32, so that the arithmetic stays inside TLC's integers; every constant  *)
(* that the source derives from the word width is derived here from        *)
(* WordBits in the same way (0x7FFFFFFF is 2^(w-1)-1, 0xFFFFFFFF is 2^w-1).*)
(* A double is a fixed-point number counted in quanta of 1/Unit, where     *)
(* Unit = 10 * DblDiv: every value the source computes before a division   *)
(* by a count (v/DblDiv times a whole range, the tenths of the velocity,   *)
(* 2.1 and 2.6) is a whole number of quanta, hence exact; a division by a  *)
(* count rounds to the quantum as the double division rounds to its ulp.   *)
(***************************************************************************)
EXTENDS Integers, Sequences, FiniteSets, TLC

VARIABLES
    build,            \* what the build makes of unspecified and undefined code
    pc,               \* the World's position in its life: constructed, running
    seed, noiseArray, treeList, cloudList,
    minLandHeight, maxLandHeight, avgLandHeight, waterBoundHeight,
    mem,              \* the heap of Tree, Cloud and CloudPart objects
    readFreed,        \* the rasterizer has read an object that was deleted
    args, result      \* one call of a function of the program, and its result

vars == <<build, pc, seed, noiseArray, treeList, cloudList, minLandHeight,
          maxLandHeight, avgLandHeight, waterBoundHeight, mem, readFreed,
          args, result>>

\* ------------------------------------------------------------------ bounds
WordBits == 10
ScreenWidthModel == 400
MaxSeed == 9
MaxGenSize == 12
MaxGenSeed == 127
MaxDetSeed == 11

\* ------------------------------------------------------- program constants
ScreenHeightPx == 920
UPPER_BOUND == 200
LOWER_BOUND == 800
TREE_FREQ == 120
TREE_BARK_HIDE_OFFSET == 15
CLOUD_FREQ == 200
CLOUD_PART_RADIUS_MIN == 10
CLOUD_PART_RADIUS_MAX == 28
CLOUD_UPPER_BOUND == 50
CLOUD_LOWER_BOUND == 145
N_CLOUD_PARTICLES_MIN == 12
N_CLOUD_PARTICLES_MAX == 20
X_CLOUD_PARTICLE_RANGE == 45
Y_CLOUD_PARTICLE_RANGE == 12
\* The low 16 bits of 0xe120fc15, 0x4a39b70d and 0x12fad5c9.
LehmerIncrementLow == 64533
LehmerMultiplier1Low == 46861
LehmerMultiplier2Low == 54729

ScreenWidth == ScreenWidthModel
ScreenHeight == ScreenHeightPx

\* --------------------------------------------------------------- numbers
Mod == 2 ^ WordBits
\* (double) 0x7FFFFFFF: the divisor of rndDouble, half the word's range.
DblDiv == 2 ^ (WordBits - 1) - 1
Unit == 10 * DblDiv

\* a / b of two doubles whose quotient is rounded toward zero to the quantum,
\* and the (int) cast of a double.
FDiv(a, b) == IF a >= 0 THEN a \div b ELSE -((-a) \div b)
ToInt(d) == FDiv(d, Unit)
FromInt(n) == n * Unit

RECURSIVE Xor(_, _, _)
Xor(a, b, n) ==
    IF n = 0 THEN 0
    ELSE (((a % 2) + (b % 2)) % 2) + 2 * Xor(a \div 2, b \div 2, n - 1)

\* (tmp >> 32) ^ tmp, narrowed to the word.
FoldHalves(tmp) == Xor(tmp \div Mod, tmp % Mod, WordBits)

\* The only element of a one-element set.  Only({e(x) : x \in {d}}) is e of
\* the value of d: the value is computed once, before e is.
Only(S) == CHOOSE x \in S : TRUE

\* ------------------------------------------------------------- Lehmer32
Lehmer32(lehmerState) == lehmerState % Mod

get(rnd) ==
    LET s  == (rnd + LehmerIncrementLow) % Mod
        m1 == FoldHalves(s * (LehmerMultiplier1Low % Mod))
        m2 == FoldHalves(m1 * (LehmerMultiplier2Low % Mod))
    IN  [rnd |-> s, val |-> m2]

\* get() % (max - min) + min.  A remainder by zero is undefined in C++: the
\* build either traps (Traps) or yields what its divide instruction leaves,
\* the dividend or zero (RemByZero).
Traps(min, max) == max - min = 0 /\ build.remByZero = "trap"

RemByZero(v) == IF build.remByZero = "dividend" THEN v ELSE 0

rndInt(rnd, min, max) ==
    Only({[rnd |-> g.rnd,
           val |-> (IF max - min = 0 THEN RemByZero(g.val)
                    ELSE g.val % (max - min)) + min] : g \in {get(rnd)}})

\* The scaling of rndDouble applied to the drawn word v.
ScaleDouble(v, min, max) ==
    LET res == FDiv(v * (max - min), DblDiv) + min
    IN  IF res < min THEN res + (max - min)
        ELSE IF res > max THEN res - (max - min)
        ELSE res

rndDouble(rnd, min, max) ==
    Only({[rnd |-> g.rnd, val |-> ScaleDouble(g.val, min, max)] : g \in {get(rnd)}})

\* -------------------------------------------------------- getNoiseArray
\* n / (VEL_RATIO / k) for the whole numbers n, k and the ratio VEL_RATIO.
OverRatio(n, k, VEL_RATIO) ==
    IF VEL_RATIO > 0 THEN FDiv(FromInt(n) * k, VEL_RATIO)
    ELSE -FDiv(FromInt(n) * k, -VEL_RATIO)

\* The walk loop without its bounds check.
RedrawNever(d, range) == d

\* The bounds check of the walk loop on the sample d just drawn.
Redraw(d, range) ==
    IF d.val < FromInt(UPPER_BOUND)
      THEN rndDouble(d.rnd, FromInt(UPPER_BOUND), FromInt(UPPER_BOUND + range))
    ELSE IF d.val > FromInt(LOWER_BOUND)
      THEN rndDouble(d.rnd, FromInt(LOWER_BOUND - range), FromInt(LOWER_BOUND))
    ELSE d

\* acc = draw + vel; vel += acc; and the two clamps.
Velocity(vel, draw, range, VEL_RATIO) ==
    LET acc == draw + vel
        v1  == vel + acc
        v2  == IF v1 > OverRatio(range, 2, VEL_RATIO)
                 THEN OverRatio(range, 3, VEL_RATIO) ELSE v1
    IN  IF v2 < -OverRatio(range, 2, VEL_RATIO)
          THEN -OverRatio(range, 3, VEL_RATIO) ELSE v2

\* One iteration of the walk loop: the sample of column i from that of
\* column i - 1, and the velocity change.
WalkStep(prev, rnd, vel, range, VEL_RATIO) ==
    Only({Only({[sample |-> d2.val, rnd |-> d3.rnd, draw |-> d3.val,
                 vel |-> Velocity(vel, d3.val, range, VEL_RATIO)] :
                  d3 \in {rndDouble(d2.rnd, -FDiv(vel, 10), FDiv(vel, 10))}}) :
           d2 \in {Redraw(rndDouble(rnd, prev - FromInt(range) - vel,
                                    prev + FromInt(range) + vel), range)}})

\* The loops over the columns run their iterations in the order of the source;
\* a stretch [lo, hi) of iterations is run as its first half, then its second.

\* The walk loop, iterations lo .. hi-1; st.arr holds columns 0 .. lo-1 and
\* st.steps the velocity before and after each iteration so far.
RECURSIVE Walk(_, _, _, _, _)
Walk(st, lo, hi, range, VEL_RATIO) ==
    IF hi <= lo THEN st
    ELSE IF hi = lo + 1
      THEN Only({[arr |-> Append(st.arr, w.sample), rnd |-> w.rnd, vel |-> w.vel,
                  steps |-> Append(st.steps, [before |-> st.vel, draw |-> w.draw,
                                              after |-> w.vel])] :
                   w \in {WalkStep(st.arr[lo], st.rnd, st.vel, range, VEL_RATIO)}})
    ELSE Only({Walk(half, (lo + hi) \div 2, hi, range, VEL_RATIO) :
                 half \in {Walk(st, lo, (lo + hi) \div 2, range, VEL_RATIO)}})

\* An inner loop that takes column j and the min(j, SMOOTH_FACTOR) columns
\* before it, column 0 included.
RECURSIVE WindowInclusive(_, _, _, _)
WindowInclusive(arr, j, k, SMOOTH_FACTOR) ==
    IF k < SMOOTH_FACTOR + 1 /\ j - k >= 0
      THEN Only({[avg |-> arr[j - k + 1] + w.avg, c |-> w.c + 1] :
                   w \in {WindowInclusive(arr, j, k + 1, SMOOTH_FACTOR)}})
    ELSE [avg |-> 0, c |-> 0]

\* The inner loop of the smoothing from k on.  j is a size_t, so (j - k) > 0
\* is j # k.
RECURSIVE Window(_, _, _, _)
Window(arr, j, k, SMOOTH_FACTOR) ==
    IF k < SMOOTH_FACTOR /\ j # k
      THEN Only({[avg |-> arr[j - k + 1] + w.avg, c |-> w.c + 1] :
                   w \in {Window(arr, j, k + 1, SMOOTH_FACTOR)}})
    ELSE [avg |-> 0, c |-> 0]

\* One iteration of the smoothing loop, in place.
SmoothColumn(arr, j, SMOOTH_FACTOR) ==
    Only({(IF w.c # 0 THEN [arr EXCEPT ![j + 1] = FDiv(w.avg, w.c)] ELSE arr) :
            w \in {Window(arr, j, 0, SMOOTH_FACTOR)}})

\* The smoothing loop, iterations lo .. hi-1.
RECURSIVE Smooth(_, _, _, _)
Smooth(arr, lo, hi, SMOOTH_FACTOR) ==
    IF hi <= lo THEN arr
    ELSE IF hi = lo + 1 THEN SmoothColumn(arr, lo, SMOOTH_FACTOR)
    ELSE Only({Smooth(half, (lo + hi) \div 2, hi, SMOOTH_FACTOR) :
                 half \in {Smooth(arr, lo, (lo + hi) \div 2, SMOOTH_FACTOR)}})

\* The statistics loop over elements lo .. hi-1.  avgLandHeight adds up every
\* sample; the sum is kept as whole units and quanta, which divides by the
\* count to the same value.
RECURSIVE Stats(_, _, _, _)
Stats(arr, acc, lo, hi) ==
    IF hi <= lo THEN acc
    ELSE IF hi = lo + 1
      THEN [whole |-> acc.whole + (arr[lo + 1] \div Unit),
            quanta |-> acc.quanta + (arr[lo + 1] % Unit),
            min |-> IF arr[lo + 1] < acc.min THEN arr[lo + 1] ELSE acc.min,
            max |-> IF arr[lo + 1] > acc.max THEN arr[lo + 1] ELSE acc.max]
    ELSE Only({Stats(arr, half, (lo + hi) \div 2, hi) :
                 half \in {Stats(arr, acc, lo, (lo + hi) \div 2)}})

DivideSum(acc, n) ==
    (acc.whole \div n) * Unit + (((acc.whole % n) * Unit + acc.quanta) \div n)

\* A water line rounded to the nearest whole number instead of cut off.
WaterBoundRounded(avg, max) == ToInt(FDiv(2 * avg + max, 3) + Unit \div 2)

\* (int) ((2 * avgLandHeight + maxLandHeight) / 3)
WaterBound(avg, max) == ToInt(FDiv(2 * avg + max, 3))

\* noiseArr[0] = rnd.rndInt(startRangeFrom, startRangeTo), and the locals of
\* the walk before its first iteration.
WalkStart(first) ==
    [arr |-> <<FromInt(first.val)>>, rnd |-> first.rnd, vel |-> 0, steps |-> <<>>]

\* The statistics of the smoothed array noiseArr and what the call leaves:
\* the array returned, the generator, and the four statistics fields.
Summary(noiseArr, walk, trapped) ==
    Only({[trapped |-> trapped, noiseArr |-> noiseArr, rnd |-> walk.rnd,
           minLandHeight |-> st.min, maxLandHeight |-> st.max,
           avgLandHeight |-> DivideSum(st, Len(noiseArr)),
           waterBoundHeight |-> WaterBound(DivideSum(st, Len(noiseArr)), st.max),
           raw |-> walk.arr, steps |-> walk.steps] :
            st \in {Stats(noiseArr, [whole |-> 0, quanta |-> 0, min |-> FromInt(ScreenHeight), max |-> 0],
                          0, Len(noiseArr))}})

getNoiseArray(size, lehmer, startRangeFrom, startRangeTo, range, SMOOTH_FACTOR, VEL_RATIO) ==
    Only({Summary(Smooth(walk.arr, 0, size, SMOOTH_FACTOR), walk,
                  Traps(startRangeFrom, startRangeTo)) :
            walk \in {Walk(WalkStart(rndInt(lehmer, startRangeFrom, startRangeTo)),
                           1, size, range, VEL_RATIO)}})

\* ---------------------------------------------------- ResourceContainer
treeColorPalette == <<"ff2aa220", "ff2aa23a", "ff2bc311", "ff143a69">>
getTreeColor(index) == treeColorPalette[index + 1]
getCloudColor == "ffffffff"

\* ------------------------------------------------------------- the heap
\* new and delete.  An address is never handed out twice, so a pointer to a
\* deleted object stays recognisable; deleting what is not live is recorded,
\* and so are the kinds of the objects deleted so far.
EmptyMem == [objs |-> <<>>, next |-> 1, badDelete |-> FALSE, freedKinds |-> {}]

Live(m) == DOMAIN m.objs

New(m, obj) == [m EXCEPT !.objs = (m.next :> obj) @@ m.objs, !.next = m.next + 1]

Delete(m, p) ==
    IF p \in Live(m)
      THEN [m EXCEPT !.objs = [a \in Live(m) \ {p} |-> m.objs[a]],
                     !.freedKinds = @ \cup {m.objs[p].kind}]
    ELSE [m EXCEPT !.badDelete = TRUE]

\* for (auto &tree: treeList) delete tree, from element i on.
RECURSIVE DeleteAll(_, _, _)
DeleteAll(m, ptrs, i) ==
    IF i > Len(ptrs) THEN m
    ELSE Only({DeleteAll(d, ptrs, i + 1) : d \in {Delete(m, ptrs[i])}})

\* A Cloud without its destructor: the particles stay allocated.
DeleteCloudOnly(m, p) == Delete(m, p)

\* delete cloud: ~Cloud deletes every cloudPart, then the Cloud is freed.
DeleteCloud(m, p) ==
    IF p \in Live(m) THEN Delete(DeleteAll(m, m.objs[p].cloudParts, 1), p)
    ELSE [m EXCEPT !.badDelete = TRUE]

RECURSIVE DeleteClouds(_, _, _)
DeleteClouds(m, ptrs, i) ==
    IF i > Len(ptrs) THEN m
    ELSE Only({DeleteClouds(d, ptrs, i + 1) : d \in {DeleteCloud(m, ptrs[i])}})

\* A gate that also lets through a sample equal to the average.
TreeGateAtOrBelow(noiseArr, x, avg) == noiseArr[x + 1] <= avg

\* ---------------------------------------------------------- getTreeList
\* The if of the loop body: whether a tree is placed at column x.  avg is the
\* World's avgLandHeight when getTreeList runs.
TreeGate(noiseArr, x, avg) == noiseArr[x + 1] < avg

\* new res::Tree(x, (int) y, (int) r, h, w, bark colour, leaf colour), where
\* r is the drawn factor times w and h the drawn height plus the offset.
Tree(x, y, w, h, r, leaf) ==
    [kind |-> "Tree", x |-> x, y |-> ToInt(y), radius |-> ToInt(r * w),
     height |-> h + TREE_BARK_HIDE_OFFSET, width |-> w,
     barkColor |-> getTreeColor(3), leafColor |-> getTreeColor(leaf)]

\* The body of the if: the four draws of one tree, in the order of the
\* source (w, h, r, leaf), and the new Tree.
NewTree(x, noiseArr, rnd, m) ==
    Only({Only({Only({Only({
        [rnd |-> leaf.rnd, ptr |-> m.next,
         mem |-> New(m, Tree(x, noiseArr[x + 1], w.val, h.val, r.val, leaf.val))] :
      leaf \in {rndInt(r.rnd, 0, 3)}}) :
      r \in {rndDouble(h.rnd, 21 * DblDiv, 26 * DblDiv)}}) :
      h \in {rndInt(w.rnd, 36, 56)}}) :
      w \in {rndInt(rnd, 6, 14)}})

\* x += rnd.rndInt(frequency / 2, frequency / 2 * 3)
TreeStride(rnd, frequency) == rndInt(rnd, frequency \div 2, (frequency \div 2) * 3)

\* The while loop from candidate column x on; scanned lists the columns the
\* loop has tested and exit is the x that ended it.
RECURSIVE TreeLoop(_, _, _, _, _, _, _, _)
TreeLoop(x, tList, scanned, rnd, m, frequency, noiseArr, avg) ==
    IF ~(x < ScreenWidth - 40)
      THEN [list |-> tList, rnd |-> rnd, mem |-> m, scanned |-> scanned, exit |-> x]
    ELSE IF TreeGate(noiseArr, x, avg)
      THEN Only({Only({
               TreeLoop(x + step.val, Append(tList, t.ptr), Append(scanned, x),
                        step.rnd, t.mem, frequency, noiseArr, avg) :
             step \in {TreeStride(t.rnd, frequency)}}) :
             t \in {NewTree(x, noiseArr, rnd, m)}})
    ELSE Only({TreeLoop(x + step.val, tList, Append(scanned, x), step.rnd, m,
                        frequency, noiseArr, avg) :
                 step \in {TreeStride(rnd, frequency)}})

getTreeList(frequency, noiseArr, avg, rnd, m) ==
    Only({TreeLoop(40 + first.val, <<>>, <<>>, first.rnd, m, frequency, noiseArr, avg) :
            first \in {TreeStride(rnd, frequency)}})

\* --------------------------------------------------------- getCloudList
\* new res::CloudPart(x + dx, y + dy, r, colour): the three draws are
\* arguments of one constructor call, which the build evaluates from the
\* left (dx, dy, r) or from the right (r, dy, dx).
NewCloudPart(x, y, rnd, m) ==
    Only({Only({Only({
        [rnd |-> d3.rnd, ptr |-> m.next,
         mem |-> New(m, [kind |-> "CloudPart",
                         x |-> x + (IF build.argOrder = "ltr" THEN d1.val ELSE d3.val),
                         y |-> y + d2.val,
                         r |-> IF build.argOrder = "ltr" THEN d3.val ELSE d1.val,
                         color |-> getCloudColor])] :
      d3 \in {IF build.argOrder = "ltr"
                THEN rndInt(d2.rnd, CLOUD_PART_RADIUS_MIN, CLOUD_PART_RADIUS_MAX)
              ELSE rndInt(d2.rnd, -X_CLOUD_PARTICLE_RANGE, X_CLOUD_PARTICLE_RANGE)}}) :
      d2 \in {rndInt(d1.rnd, -Y_CLOUD_PARTICLE_RANGE, Y_CLOUD_PARTICLE_RANGE)}}) :
      d1 \in {IF build.argOrder = "ltr"
                THEN rndInt(rnd, -X_CLOUD_PARTICLE_RANGE, X_CLOUD_PARTICLE_RANGE)
              ELSE rndInt(rnd, CLOUD_PART_RADIUS_MIN, CLOUD_PART_RADIUS_MAX)}})

\* The while loop of getCloud; cloudPtr is the Cloud under construction.
RECURSIVE CloudPartLoop(_, _, _, _, _, _)
CloudPartLoop(nParticles, cloudPtr, x, y, rnd, m) ==
    IF ~(nParticles > 0) THEN [rnd |-> rnd, mem |-> m, ptr |-> cloudPtr]
    ELSE Only({CloudPartLoop(nParticles - 1, cloudPtr, x, y, p.rnd,
                             [p.mem EXCEPT !.objs[cloudPtr].cloudParts = Append(@, p.ptr)]) :
                 p \in {NewCloudPart(x, y, rnd, m)}})

getCloud(nParticles, x, y, rnd, m) ==
    CloudPartLoop(nParticles, m.next, x, y, rnd,
                  New(m, [kind |-> "Cloud", x |-> x, y |-> y, cloudParts |-> <<>>]))

\* x += rnd.rndInt(frequency / 2, frequency / 2 * 5)
CloudStride(rnd, frequency) == rndInt(rnd, frequency \div 2, (frequency \div 2) * 5)

RECURSIVE CloudLoop(_, _, _, _, _)
CloudLoop(x, cList, rnd, m, frequency) ==
    IF ~(x < ScreenWidth - 60) THEN [list |-> cList, rnd |-> rnd, mem |-> m]
    ELSE Only({Only({Only({Only({
             CloudLoop(x + step.val, Append(cList, c.ptr), step.rnd, c.mem, frequency) :
           step \in {CloudStride(c.rnd, frequency)}}) :
           c \in {getCloud(n.val, x, y.val, n.rnd, m)}}) :
           n \in {rndInt(y.rnd, N_CLOUD_PARTICLES_MIN, N_CLOUD_PARTICLES_MAX)}}) :
           y \in {rndInt(rnd, CLOUD_UPPER_BOUND, CLOUD_LOWER_BOUND)}})

getCloudList(frequency, rnd, m) ==
    Only({CloudLoop(60 + first.val, <<>>, first.rnd, m, frequency) :
            first \in {CloudStride(rnd, frequency)}})

\* ------------------------------------------------------------ the World
\* The fields of the World object.
World ==
    [seed |-> seed, noiseArray |-> noiseArray, treeList |-> treeList,
     cloudList |-> cloudList, minLandHeight |-> minLandHeight,
     maxLandHeight |-> maxLandHeight, avgLandHeight |-> avgLandHeight,
     waterBoundHeight |-> waterBoundHeight, mem |-> mem]

\* The World with the array and the statistics one getNoiseArray call leaves.
WithNoise(w, n) ==
    [w EXCEPT !.noiseArray = n.noiseArr, !.minLandHeight = n.minLandHeight,
              !.maxLandHeight = n.maxLandHeight,
              !.avgLandHeight = n.avgLandHeight,
              !.waterBoundHeight = n.waterBoundHeight]

\* Lehmer32 rnd(seed); noiseArray = getNoiseArray(ScreenWidth(), rnd, 100,
\* ScreenHeight() - 100, 2, SMOOTH_FACTOR).  g is the World with the handler's
\* local generator.
NewTerrain(w, SMOOTH_FACTOR) ==
    Only({[world |-> WithNoise(w, n), rnd |-> n.rnd] :
            n \in {getNoiseArray(ScreenWidth, Lehmer32(w.seed), 100, ScreenHeight - 100, 2, SMOOTH_FACTOR, -1)}})

\* Trees that are appended to the list the World already holds.
NewTreesAppended(g) ==
    Only({[world |-> [g.world EXCEPT !.treeList = g.world.treeList \o t.list, !.mem = t.mem], rnd |-> t.rnd] :
            t \in {getTreeList(TREE_FREQ, g.world.noiseArray, g.world.avgLandHeight, g.rnd, g.world.mem)}})

\* for (auto &tree: treeList) delete tree; ... treeList = getTreeList(...)
NewTrees(g) ==
    Only({[world |-> [g.world EXCEPT !.treeList = t.list, !.mem = t.mem], rnd |-> t.rnd] :
            t \in {getTreeList(TREE_FREQ, g.world.noiseArray, g.world.avgLandHeight, g.rnd,
                               DeleteAll(g.world.mem, g.world.treeList, 1))}})

\* for (auto &cloud: cloudList) delete cloud; ... cloudList = getCloudList(...)
NewClouds(g) ==
    Only({[world |-> [g.world EXCEPT !.cloudList = c.list, !.mem = c.mem], rnd |-> c.rnd] :
            c \in {getCloudList(CLOUD_FREQ, g.rnd,
                                DeleteClouds(g.world.mem, g.world.cloudList, 1))}})

NextSeed(w) == [w EXCEPT !.seed = (w.seed + 1) % Mod]

\* The body of OnUserCreate.
Create(w) == NewClouds(NewTrees(NewTerrain(w, 8))).world

\* The body of if (GetKey(olc::SPACE).bPressed).
RegenerateOnce(w) == NewClouds(NewTrees(NewTerrain(NextSeed(w), 12))).world

\* The body of if (GetKey(olc::C).bHeld).
RegenerateHeld(w) == NewTrees(NewTerrain(NextSeed(w), 12)).world

\* The pointers drawTree and drawCloud dereference in one frame.
PartsRead(w) ==
    UNION {{w.mem.objs[w.cloudList[i]].cloudParts[k] :
              k \in 1 .. Len(w.mem.objs[w.cloudList[i]].cloudParts)} :
           i \in {i \in 1 .. Len(w.cloudList) : w.cloudList[i] \in Live(w.mem)}}

PointersRead(w) ==
    {w.treeList[i] : i \in 1 .. Len(w.treeList)}
      \cup {w.cloudList[i] : i \in 1 .. Len(w.cloudList)} \cup PartsRead(w)

ReadsFreed(w) == \E p \in PointersRead(w) : p \notin Live(w.mem)

NoCall == [op |-> "none"]

Builds == [argOrder : {"ltr", "rtl"}, remByZero : {"trap", "dividend", "zero"}]

\* The World as World() leaves it.
Constructed ==
    /\ pc = "constructed"
    /\ seed = 0
    /\ noiseArray = <<>>
    /\ treeList = <<>>
    /\ cloudList = <<>>
    /\ minLandHeight = 0
    /\ maxLandHeight = 0
    /\ avgLandHeight = 0
    /\ waterBoundHeight = 0
    /\ mem = EmptyMem
    /\ readFreed = FALSE

Store(w) ==
    /\ seed' = w.seed
    /\ noiseArray' = w.noiseArray
    /\ treeList' = w.treeList
    /\ cloudList' = w.cloudList
    /\ minLandHeight' = w.minLandHeight
    /\ maxLandHeight' = w.maxLandHeight
    /\ avgLandHeight' = w.avgLandHeight
    /\ waterBoundHeight' = w.waterBoundHeight
    /\ mem' = w.mem

Init ==
    /\ build \in {b \in Builds : b.remByZero = "trap"}
    /\ Constructed
    /\ args = NoCall
    /\ result = NoCall

OnUserCreate ==
    /\ pc = "constructed"
    /\ pc' = "running"
    /\ \E w \in {Create(World)} : Store(w)
    /\ UNCHANGED <<build, readFreed, args, result>>

\* One frame: the two key tests in turn, then the drawing.
OnUserUpdate ==
    /\ pc = "running"
    /\ \E space \in BOOLEAN, held \in BOOLEAN :
         /\ seed + (IF space THEN 1 ELSE 0) + (IF held THEN 1 ELSE 0) <= MaxSeed
         /\ \E w1 \in {IF space THEN RegenerateOnce(World) ELSE World} :
              \E w2 \in {IF held THEN RegenerateHeld(w1) ELSE w1} :
                /\ Store(w2)
                /\ readFreed' = (readFreed \/ ReadsFreed(w2))
    /\ UNCHANGED <<build, pc, args, result>>

Next == OnUserCreate \/ OnUserUpdate

Spec == Init /\ [][Next]_vars

\* What a World shows: the terrain, and the trees and clouds its lists point
\* to, in the order of the lists.
Shown(w) ==
    [terrain |-> w.noiseArray,
     trees |-> [i \in 1 .. Len(w.treeList) |-> w.mem.objs[w.treeList[i]]],
     clouds |-> [i \in 1 .. Len(w.cloudList) |->
                  LET c == w.mem.objs[w.cloudList[i]]
                  IN  [x |-> c.x, y |-> c.y,
                       parts |-> [k \in 1 .. Len(c.cloudParts) |-> w.mem.objs[c.cloudParts[k]]]]]]

\* ------------------------------------------- calls of getNoiseArray alone
\* A World just constructed, on which getNoiseArray is called once with the
\* arguments args; the statistics go to the World's fields as in the source.
StartRanges == {<<100, ScreenHeight - 100>>, <<100, 100>>}

GenArgs ==
    {[op |-> "getNoiseArray", size |-> n, seed |-> s, startRangeFrom |-> r[1],
      startRangeTo |-> r[2], range |-> 2, SMOOTH_FACTOR |-> f, VEL_RATIO |-> -1] :
       n \in 1 .. MaxGenSize, s \in 0 .. MaxGenSeed, r \in StartRanges, f \in {2, 8, 12}}

InitGen ==
    /\ build \in {b \in Builds : b.argOrder = "ltr"}
    /\ Constructed
    /\ args \in GenArgs
    /\ result = NoCall

CallGetNoiseArray ==
    /\ args.op = "getNoiseArray"
    /\ result = NoCall
    /\ \E n \in {getNoiseArray(args.size, Lehmer32(args.seed), args.startRangeFrom, args.startRangeTo, args.range, args.SMOOTH_FACTOR, args.VEL_RATIO)} :
           IF n.trapped
             THEN /\ pc' = "trapped"
                  /\ result' = [op |-> "getNoiseArray", returned |-> FALSE]
                  /\ UNCHANGED <<minLandHeight, maxLandHeight, avgLandHeight, waterBoundHeight>>
           ELSE /\ pc' = pc
                /\ result' = [op |-> "getNoiseArray", returned |-> TRUE,
                              noiseArr |-> n.noiseArr, raw |-> n.raw,
                              steps |-> n.steps]
                /\ minLandHeight' = n.minLandHeight
                /\ maxLandHeight' = n.maxLandHeight
                /\ avgLandHeight' = n.avgLandHeight
                /\ waterBoundHeight' = n.waterBoundHeight
    /\ UNCHANGED <<build, seed, noiseArray, treeList, cloudList, mem, readFreed, args>>

SpecGen == InitGen /\ [][CallGetNoiseArray]_vars

\* ----------------------------------------------- calls of rndDouble alone
\* A generator in any state, on which rndDouble(min, max) is called once.
DoubleRanges == {<<0, 1>>, <<-3, 3>>, <<198, 202>>, <<798, 800>>, <<21, 26>>}

InitDbl ==
    /\ build \in {b \in Builds : b.argOrder = "ltr" /\ b.remByZero = "trap"}
    /\ Constructed
    /\ args \in {[op |-> "rndDouble", lehmerState |-> s, min |-> FromInt(r[1]), max |-> FromInt(r[2])] :
                   s \in 0 .. Mod - 1, r \in DoubleRanges}
    /\ result = NoCall

CallRndDouble ==
    /\ args.op = "rndDouble"
    /\ result = NoCall
    /\ \E d \in {rndDouble(args.lehmerState, args.min, args.max)} :
           result' = [op |-> "rndDouble", val |-> d.val, lehmerState |-> d.rnd,
                      word |-> get(args.lehmerState).val]
    /\ UNCHANGED <<build, pc, seed, noiseArray, treeList, cloudList, minLandHeight, maxLandHeight, avgLandHeight, waterBoundHeight, mem, readFreed, args>>

SpecDbl == InitDbl /\ [][CallRndDouble]_vars

\* --------------------------------------------- calls of getTreeList alone
\* A running World whose terrain and average are forced, on which
\* getTreeList is called once with a generator in any state.
Terrains ==
    {[noiseArray |-> [i \in 1 .. ScreenWidth |-> FromInt(500)], avgLandHeight |-> FromInt(500)],
     [noiseArray |-> [i \in 1 .. ScreenWidth |-> FromInt(500)], avgLandHeight |-> FromInt(500) + 1],
     [noiseArray |-> [i \in 1 .. ScreenWidth |-> FromInt(500)], avgLandHeight |-> FromInt(500) - 1],
     [noiseArray |-> [i \in 1 .. ScreenWidth |-> FromInt(300 + i) + (i % Unit)], avgLandHeight |-> FromInt(500)]}

InitTrees ==
    /\ build \in {b \in Builds : b.argOrder = "ltr" /\ b.remByZero = "trap"}
    /\ pc = "running"
    /\ seed = 0
    /\ \E t \in Terrains :
         /\ noiseArray = t.noiseArray
         /\ avgLandHeight = t.avgLandHeight
         /\ minLandHeight = t.noiseArray[1]
         /\ maxLandHeight = t.noiseArray[ScreenWidth]
         /\ waterBoundHeight = WaterBound(t.avgLandHeight, t.noiseArray[ScreenWidth])
    /\ treeList = <<>>
    /\ cloudList = <<>>
    /\ mem = EmptyMem
    /\ readFreed = FALSE
    /\ args \in {[op |-> "getTreeList", frequency |-> TREE_FREQ, lehmerState |-> s] : s \in 0 .. Mod - 1}
    /\ result = NoCall

CallGetTreeList ==
    /\ args.op = "getTreeList"
    /\ result = NoCall
    /\ \E t \in {getTreeList(args.frequency, noiseArray, avgLandHeight, args.lehmerState, mem)} :
           /\ treeList' = t.list
           /\ mem' = t.mem
           /\ result' = [op |-> "getTreeList", scanned |-> t.scanned, exit |-> t.exit]
    /\ UNCHANGED <<build, pc, seed, noiseArray, cloudList, minLandHeight, maxLandHeight, avgLandHeight, waterBoundHeight, readFreed, args>>

SpecTrees == InitTrees /\ [][CallGetTreeList]_vars

\* ------------------------------------------------ the pipeline, run twice
\* A World whose seed field is args.seed runs the pipeline of OnUserCreate,
\* then regenerates for the next seed (by either key), then is given the seed
\* args.seed again and runs the pipeline of OnUserCreate once more.
InitDet ==
    /\ build \in {b \in Builds : b.remByZero = "trap"}
    /\ Constructed
    /\ args \in {[op |-> "pipeline", seed |-> s] : s \in 0 .. MaxDetSeed}
    /\ result = [op |-> "pipeline", runs |-> <<>>]

DetFirst ==
    /\ args.op = "pipeline"
    /\ Len(result.runs) = 0
    /\ \E w \in {Create([World EXCEPT !.seed = args.seed])} :
           /\ Store(w)
           /\ result' = [result EXCEPT !.runs = Append(@, Shown(w))]
    /\ pc' = "running"
    /\ UNCHANGED <<build, readFreed, args>>

DetOther ==
    /\ args.op = "pipeline"
    /\ Len(result.runs) = 1
    /\ \E held \in BOOLEAN :
         \E w \in {IF held THEN RegenerateHeld(World) ELSE RegenerateOnce(World)} :
             /\ Store(w)
             /\ result' = [result EXCEPT !.runs = Append(@, Shown(w))]
    /\ UNCHANGED <<build, pc, readFreed, args>>

DetAgain ==
    /\ args.op = "pipeline"
    /\ Len(result.runs) = 2
    /\ \E w \in {Create([World EXCEPT !.seed = args.seed])} :
           /\ Store(w)
           /\ result' = [result EXCEPT !.runs = Append(@, Shown(w))]
    /\ UNCHANGED <<build, pc, readFreed, args>>

NextDet == DetFirst \/ DetOther \/ DetAgain

SpecDet == InitDet /\ [][NextDet]_vars

\* ------------------------------------------------------------------ claims
RECURSIVE SumTo(_, _)
SumTo(s, n) == IF n = 0 THEN 0 ELSE s[n] + SumTo(s, n - 1)

SeqSum(s) == SumTo(s, Len(s))

MeanOf(s) == SeqSum(s) \div Len(s)

MaxOf(s) == CHOOSE v \in {s[i] : i \in 1 .. Len(s)} : \A i \in 1 .. Len(s) : s[i] <= v

Smaller(a, b) == IF a < b THEN a ELSE b

Abs(a) == IF a < 0 THEN -a ELSE a

\* C1.  Determinism of the pipeline: the World given seed S shows, after the
\* pipeline of OnUserCreate, the same terrain, the same trees and the same
\* clouds with the same particles, in the same order, whether it runs the
\* pipeline straight after construction or after it has shown another seed's
\* landscape in between.
PipelineDeterministic ==
    (result.op = "pipeline" /\ Len(result.runs) = 3)
      => result.runs[1] = result.runs[3]

\* C1 witness: seed S run twice, with trees and a cloud to compare, around a
\* landscape that differs from it.
PipelineRunTwice ==
    /\ result.op = "pipeline"
    /\ Len(result.runs) = 3
    /\ Len(result.runs[3].trees) > 0
    /\ Len(result.runs[3].clouds) > 0
    /\ result.runs[2] # result.runs[1]

\* The World as World() leaves it, and the World the pipeline makes of it for
\* seed s: OnUserCreate for seed 0, the SPACE branch from seed s - 1 otherwise.
Fresh ==
    [seed |-> 0, noiseArray |-> <<>>, treeList |-> <<>>, cloudList |-> <<>>,
     minLandHeight |-> 0, maxLandHeight |-> 0, avgLandHeight |-> 0,
     waterBoundHeight |-> 0, mem |-> EmptyMem]

PipelineFor(s) ==
    IF s = 0 THEN Create(Fresh) ELSE RegenerateOnce([Fresh EXCEPT !.seed = s - 1])

\* C2.  Regeneration is one unit: once the World runs, at the end of every
\* callback its terrain, its trees and its clouds are all what the pipeline
\* produces for the current seed.
RegeneratedTogether ==
    pc = "running" => Shown(World) = Shown(PipelineFor(seed))

\* A call of getNoiseArray with the reference constants that has returned.
Returned == result.op = "getNoiseArray" /\ result.returned

ReferenceStart == args.startRangeFrom = 100 /\ args.startRangeTo = ScreenHeight - 100

InBand(h) ==
    FromInt(UPPER_BOUND - args.range) <= h /\ h <= FromInt(LOWER_BOUND + args.range)

\* C3 as stated.  Every column of the returned array, column 0 included,
\* holds a sample within [200 - range, 800 + range].
AllColumnsInBand ==
    (Returned /\ ReferenceStart)
      => \A i \in 1 .. Len(result.noiseArr) : InBand(result.noiseArr[i])

\* C3 amended.  Every column from column 1 on holds a sample within
\* [200 - range, 800 + range]; column 0 holds the whole number drawn from the
\* start range, 100 <= h < screenHeight - 100, which the band does not bound.
ColumnsAfterFirstInBand ==
    (Returned /\ ReferenceStart)
      => /\ \A i \in 2 .. Len(result.noiseArr) : InBand(result.noiseArr[i])
         /\ result.noiseArr[1] % Unit = 0
         /\ FromInt(args.startRangeFrom) <= result.noiseArr[1]
         /\ result.noiseArr[1] < FromInt(args.startRangeTo)

\* C3 witness: an array whose column 0 lies under the band and whose next
\* column was drawn under 200 and redrawn.
FirstColumnUnderBand ==
    /\ Returned
    /\ ReferenceStart
    /\ Len(result.noiseArr) >= 3
    /\ result.noiseArr[1] < FromInt(UPPER_BOUND - args.range)
    /\ result.noiseArr[2] >= FromInt(UPPER_BOUND)

\* The candidate columns of one getTreeList call follow the scan of the
\* source: first 40 + d, then steps d, each d in [freq/2, freq/2*3), all
\* under width - 40, and the scan ends with the first x that is not.
ScanFollowsStride ==
    LET path == <<40>> \o result.scanned \o <<result.exit>>
    IN  /\ \A k \in 1 .. Len(path) - 1 :
             /\ path[k + 1] - path[k] >= args.frequency \div 2
             /\ path[k + 1] - path[k] < (args.frequency \div 2) * 3
        /\ \A k \in 1 .. Len(result.scanned) : result.scanned[k] < ScreenWidth - 40
        /\ result.exit >= ScreenWidth - 40

BelowAverage(x) == noiseArray[x + 1] < avgLandHeight

\* C4.  Tree placement gating: the trees of the list are, in order, exactly
\* the scanned candidate columns whose sample is below the average; hence none
\* when no scanned sample is below it and one per candidate when all are; each
\* tree stands at its column, inside [0, width), on the truncated sample.
TreesExactlyBelowAverage ==
    result.op = "getTreeList"
      => /\ ScanFollowsStride
         /\ [i \in 1 .. Len(treeList) |-> mem.objs[treeList[i]].x]
              = SelectSeq(result.scanned, BelowAverage)
         /\ \A i \in 1 .. Len(treeList) :
              /\ treeList[i] \in Live(mem)
              /\ mem.objs[treeList[i]].x \in 0 .. ScreenWidth - 1
              /\ mem.objs[treeList[i]].y = ToInt(noiseArray[mem.objs[treeList[i]].x + 1])
         /\ ((\A k \in 1 .. Len(result.scanned) : ~BelowAverage(result.scanned[k]))
               => treeList = <<>>)
         /\ ((\A k \in 1 .. Len(result.scanned) : BelowAverage(result.scanned[k]))
               => Len(treeList) = Len(result.scanned))

\* C4 witness: a scan that placed a tree at some candidates and skipped others.
SomeCandidatesSkipped ==
    /\ result.op = "getTreeList"
    /\ Len(treeList) > 0
    /\ Len(treeList) < Len(result.scanned)

\* C5 as stated.  After a call the stored water line is exactly
\* (2 * average + maximum) / 3 of the returned array, to the quantum.
WaterLineExact ==
    Returned
      => Abs(3 * FromInt(waterBoundHeight)
               - (2 * MeanOf(result.noiseArr) + MaxOf(result.noiseArr))) < 3

\* C5 amended.  After a call the stored average and maximum are the mean and
\* the greatest sample of the returned array, and the stored water line is
\* (2 * average + maximum) / 3 truncated toward zero to a whole number.
WaterLineTruncated ==
    Returned
      => /\ avgLandHeight = MeanOf(result.noiseArr)
         /\ maxLandHeight = MaxOf(result.noiseArr)
         /\ 3 * FromInt(waterBoundHeight) <= 2 * avgLandHeight + maxLandHeight
         /\ 2 * avgLandHeight + maxLandHeight < 3 * FromInt(waterBoundHeight + 1)

\* C5 witness: a call whose quotient lies at least a half above the stored
\* whole number.
WaterLineCutOff ==
    /\ Returned
    /\ Len(result.noiseArr) >= 2
    /\ 2 * (2 * avgLandHeight + maxLandHeight - 3 * FromInt(waterBoundHeight)) >= 3 * Unit

\* C6.  Degenerate start range: a call with startRangeFrom = startRangeTo
\* completes, and column 0 of what it returns is startRangeFrom.
DegenerateStartCompletes ==
    (result.op = "getNoiseArray" /\ args.startRangeFrom = args.startRangeTo)
      => /\ result.returned
         /\ result.noiseArr[1] = FromInt(args.startRangeFrom)

\* C7.  rndDouble stays in range: for every word get() can return and every
\* min < max the result lies in [min, max], and one draw is consumed.
DoubleInRange ==
    (result.op = "rndDouble" /\ args.min < args.max)
      => /\ args.min <= result.val
         /\ result.val <= args.max
         /\ result.lehmerState = get(args.lehmerState).rnd

\* The mean, rounded toward zero, of raw column j and the n smoothed columns
\* before it.
MeanWithPredecessors(raw, sm, j, n) ==
    FDiv(raw[j + 1] + SeqSum(SubSeq(sm, j + 1 - n, j)), n + 1)

\* The mean of the raw columns j - n .. j.
MeanOfRaw(raw, j, n) == FDiv(SeqSum(SubSeq(raw, j + 1 - n, j + 1)), n + 1)

\* C8 as stated.  Column 0 is unchanged and every column j >= 1 becomes the
\* mean of column j and the min(j, smoothFactor) columns before it, read
\* either as they were before the pass or as the pass has left them.
WindowReachesBack ==
    Returned
      => /\ result.noiseArr[1] = result.raw[1]
         /\ \/ \A j \in 1 .. Len(result.raw) - 1 :
                 result.noiseArr[j + 1]
                   = MeanWithPredecessors(result.raw, result.noiseArr, j, Smaller(j, args.SMOOTH_FACTOR))
            \/ \A j \in 1 .. Len(result.raw) - 1 :
                 result.noiseArr[j + 1]
                   = MeanOfRaw(result.raw, j, Smaller(j, args.SMOOTH_FACTOR))

\* C8 amended.  Columns 0 and 1 are unchanged and every column j >= 1 becomes
\* the mean of min(j, smoothFactor) samples: column j and the
\* min(j, smoothFactor) - 1 columns before it, as the pass has left them; the
\* window never reaches column 0.
WindowStopsShort ==
    Returned
      => /\ Len(result.noiseArr) = Len(result.raw)
         /\ result.noiseArr[1] = result.raw[1]
         /\ Len(result.raw) >= 2 => result.noiseArr[2] = result.raw[2]
         /\ \A j \in 1 .. Len(result.raw) - 1 :
              result.noiseArr[j + 1]
                = MeanWithPredecessors(result.raw, result.noiseArr, j, Smaller(j, args.SMOOTH_FACTOR) - 1)

\* C8 witness: an array longer than the window, whose late columns the pass
\* has changed.
WindowSlides ==
    /\ Returned
    /\ args.SMOOTH_FACTOR >= 2
    /\ Len(result.raw) > args.SMOOTH_FACTOR + 2
    /\ result.noiseArr[Len(result.raw)] # result.raw[Len(result.raw)]
    /\ result.noiseArr[3] # result.raw[3]

\* C9.  Velocity update: the velocity starts at 0, and with range 2 and ratio
\* -1 a step whose v + a has magnitude at most 4 leaves the velocity at v + a,
\* a being the draw of the step.
VelocityAddsDraw ==
    (Returned /\ args.range = 2 /\ args.VEL_RATIO = -1)
      => \A i \in 1 .. Len(result.steps) :
           /\ i = 1 => result.steps[i].before = 0
           /\ Abs(result.steps[i].before + result.steps[i].draw) <= FromInt(4)
                => result.steps[i].after = result.steps[i].before + result.steps[i].draw

\* C10.  Ownership safety: the rasterizer has read no deleted object, nothing
\* was deleted that was not live, and the live objects are exactly the trees
\* and clouds of the two lists and the particles of those clouds, so that a
\* deleted Cloud has taken its particles with it and nothing unreferenced
\* stays allocated.
OwnedObjectsLive ==
    /\ ~readFreed
    /\ ~mem.badDelete
    /\ Live(mem) = PointersRead(World)

\* C10 witness: trees, clouds and particles have been deleted, and trees and
\* clouds are shown.
ObjectsReplaced ==
    /\ pc = "running"
    /\ mem.freedKinds = {"Tree", "Cloud", "CloudPart"}
    /\ Len(treeList) > 0
    /\ Len(cloudList) > 0

=============================================================================
